---------------------------- MODULE Spec2Model ----------------------------
(***************************************************************************)
(* Model of the ATT&CK Navigator heatmap generator (gen_heatmap.py) and of *)
(* the relationship lookup (relationships.py).                             *)
(*                                                                         *)
(* Representation choices:                                                 *)
(*  - a Python dict is a sequence of entries with pairwise distinct keys, *)
(*    in insertion order (dicts preserve insertion order);                 *)
(*  - an ATT&CK identifier such as "T1055.001" is the sequence of its      *)
(*    dot-separated segments <<"T1055", "001">>, so that `'.' in id` is    *)
(*    Len(id) > 1 and id.split('.')[0] is <<id[1]>>; None / "" is <<>>;    *)
(*  - free text (descriptions, search terms) is a sequence of characters;  *)
(*  - a path is the sequence of its components.                            *)
(***************************************************************************)
EXTENDS Integers, Sequences, FiniteSets, TLC

VARIABLES
    pc,               \* position of the run
    search_terms,     \* args.search
    merge_tech,       \* args.merge_tech
    threshold,        \* args.threshold
    fs,               \* directories that exist under the temp root
    stix_file,        \* main: stix_file
    temp_dir,         \* main: temp_dir
    mitre,            \* loaded dataset: groups and group -> techniques used
    groups,           \* resolved group list
    technique_scores, \* the ScoreMap
    filtered_scores,  \* result of filter_by_threshold
    layer,            \* the Layer document
    thesrc,           \* relationships.py: the STIX store
    related_fwd,      \* get_related(..., reverse=False)
    related_rev,      \* get_related(..., reverse=True)
    combined          \* outcome of a lookup that combines two get_related results

vars == <<pc, search_terms, merge_tech, threshold, fs, stix_file, temp_dir,
          mitre, groups, technique_scores, filtered_scores, layer,
          thesrc, related_fwd, related_rev, combined>>

None == "None"

\* None for a path variable
NoPath == <<>>

\* the outcome of a call: the exception it raised ("None": it returned)
\* and the value it returned
Outcome(raised, value) == [raised |-> raised, value |-> value]

NotCalled == Outcome("None", <<>>)

-----------------------------------------------------------------------------
(* Bounds of the model                                                     *)

MaxUses == 3        \* group -> technique entries in an aggregation dataset
MaxEntries == 3     \* entries of a ScoreMap handed to the filter
MaxScore == 3       \* largest score of such a ScoreMap
MaxThreshold == 3   \* largest threshold
MaxTerms == 2       \* search terms on the command line
MaxTermLen == 2     \* characters of a keyword term
MaxEdges == 2       \* relationship records in the STIX store

-----------------------------------------------------------------------------
(* Generic helpers                                                         *)

SeqsUpTo(S, n) == UNION {[1..k -> S] : k \in 0..n}

Range(s) == {s[i] : i \in 1..Len(s)}

NoDup(s) == \A i, j \in 1..Len(s) : s[i] = s[j] => i = j

\* order-preserving sub-sequence of the elements satisfying Keep
RECURSIVE SelectIdx(_, _, _)
SelectIdx(s, keep, i) ==
    IF i > Len(s) THEN <<>>
    ELSE (IF i \in keep THEN <<s[i]>> ELSE <<>>) \o SelectIdx(s, keep, i + 1)

Max(a, b) == IF a >= b THEN a ELSE b

-----------------------------------------------------------------------------
(* Python dict as an insertion-ordered sequence of [key, val] entries      *)

DictHas(d, k) == \E i \in 1..Len(d) : d[i].key = k

DictGet(d, k, default) ==
    IF DictHas(d, k)
    THEN d[CHOOSE i \in 1..Len(d) : d[i].key = k].val
    ELSE default

\* d[k] = v : overwrite in place when present, append otherwise
DictSet(d, k, v) ==
    IF DictHas(d, k)
    THEN [i \in 1..Len(d) |-> IF d[i].key = k THEN [key |-> k, val |-> v] ELSE d[i]]
    ELSE Append(d, [key |-> k, val |-> v])

DictKeys(d) == {d[i].key : i \in 1..Len(d)}

-----------------------------------------------------------------------------
(* Dataset objects                                                         *)

\* attack-pattern objects: STIX id, ATT&CK id (segments), kill chain phases
t1055 ==
    [id |-> "attack-pattern--1055", attack_id |-> <<"T1055">>,
     kill_chain_phases |-> <<"defense-evasion">>]
t1055_001 ==
    [id |-> "attack-pattern--1055-001", attack_id |-> <<"T1055", "001">>,
     kill_chain_phases |-> <<"defense-evasion">>]
t1053_005 ==
    [id |-> "attack-pattern--1053-005", attack_id |-> <<"T1053", "005">>,
     kill_chain_phases |-> <<"execution", "persistence">>]
\* a technique that declares no tactic phase
t_nophase ==
    [id |-> "attack-pattern--nophase", attack_id |-> <<"T1999">>,
     kill_chain_phases |-> <<>>]
\* a technique whose external identifier cannot be resolved
t_noid ==
    [id |-> "attack-pattern--noid", attack_id |-> <<>>,
     kill_chain_phases |-> <<"execution">>]

Techniques == {t1055, t1055_001, t1053_005, t_nophase, t_noid}

Tactics == {"defense-evasion", "execution", "persistence"}

TechIds == {<<"T1055">>, <<"T1055", "001">>, <<"T1053">>, <<"T1053", "005">>,
            <<"T1999">>}

ScoreKeys == {<<x, t>> : x \in Tactics, t \in TechIds}

GroupIds == {"intrusion-set--A", "intrusion-set--B", "intrusion-set--C"}

-----------------------------------------------------------------------------
(* aggregate_techniques                                                    *)

\* '.' in attack_id
IsSubTechnique(tech_id) == Len(tech_id) > 1

\* attack_id.split('.')[0]
ParentId(tech_id) == <<tech_id[1]>>

\* faulty variant: the parent is never added to the list
tech_ids_to_process_noparent(attack_id, merge) == <<attack_id>>

\* lines 251-256: the identifiers incremented for one phase of one entry
tech_ids_to_process(attack_id, merge) ==
    IF merge /\ IsSubTechnique(attack_id)
    THEN <<attack_id, ParentId(attack_id)>>
    ELSE <<attack_id>>

\* faulty variant: every increment adds a fresh entry instead of updating the key
IncrementScoreAppend(scores, key) == Append(scores, [key |-> key, val |-> 1])

\* line 260: technique_scores[key] = technique_scores.get(key, 0) + 1
IncrementScore(scores, key) == DictSet(scores, key, DictGet(scores, key, 0) + 1)

\* lines 258-260: for tech_id in tech_ids_to_process
RECURSIVE ProcessIds(_, _, _)
ProcessIds(scores, tactic_name, ids) ==
    IF ids = <<>> THEN scores
    ELSE ProcessIds(IncrementScore(scores, <<tactic_name, Head(ids)>>),
                    tactic_name, Tail(ids))

\* lines 247-260: for phase in technique.kill_chain_phases
RECURSIVE ProcessPhases(_, _, _, _)
ProcessPhases(scores, attack_id, phases, merge) ==
    IF phases = <<>> THEN scores
    ELSE ProcessPhases(
            ProcessIds(scores, Head(phases), tech_ids_to_process(attack_id, merge)),
            attack_id, Tail(phases), merge)

\* lines 235-260: for entry in group_techniques[group.id]
RECURSIVE ProcessEntries(_, _, _)
ProcessEntries(scores, entries, merge) ==
    IF entries = <<>> THEN scores
    ELSE LET technique == Head(entries).object
             attack_id == technique.attack_id
         IN  IF attack_id = <<>>                       \* not attack_id: continue
             THEN ProcessEntries(scores, Tail(entries), merge)
             ELSE IF technique.kill_chain_phases = <<>> \* no phases: continue
             THEN ProcessEntries(scores, Tail(entries), merge)
             ELSE ProcessEntries(
                     ProcessPhases(scores, attack_id,
                                   technique.kill_chain_phases, merge),
                     Tail(entries), merge)

\* lines 231-260: for group in groups
RECURSIVE ProcessGroups(_, _, _, _)
ProcessGroups(scores, group_techniques, gs, merge) ==
    IF gs = <<>> THEN scores
    ELSE IF ~DictHas(group_techniques, Head(gs).id)    \* not in: continue
         THEN ProcessGroups(scores, group_techniques, Tail(gs), merge)
         ELSE ProcessGroups(
                 ProcessEntries(scores,
                                DictGet(group_techniques, Head(gs).id, <<>>),
                                merge),
                 group_techniques, Tail(gs), merge)

aggregate_techniques(m, gs, merge) ==
    ProcessGroups(<<>>, m.group_techniques, gs, merge)

-----------------------------------------------------------------------------
(* Text: case-insensitive substring containment                            *)

Alphabet == {"a", "A", "b", "B"}

\* str.lower() on one character
LowerChar(c) == IF c = "A" THEN "a" ELSE IF c = "B" THEN "b" ELSE c

Lower(text) == [i \in 1..Len(text) |-> LowerChar(text[i])]

\* sub in text
Contains(text, sub) ==
    \E k \in 0..(Len(text) - Len(sub)) :
        \A i \in 1..Len(sub) : text[k + i] = sub[i]

Wildcard == <<"*">>

-----------------------------------------------------------------------------
(* search_groups                                                           *)

Live(o) == ~o.revoked /\ ~o.deprecated

\* mitre.get_groups(remove_revoked_deprecated=...): the groups in store order
get_groups(m, remove_revoked_deprecated) ==
    SelectIdx(m.groups,
              {i \in 1..Len(m.groups) :
                  remove_revoked_deprecated => Live(m.groups[i])}, 1)

\* mitre.get_objects_by_content(term, "intrusion-set", remove_revoked_deprecated=...)
get_objects_by_content(m, term, remove_revoked_deprecated) ==
    SelectIdx(m.groups,
              {i \in 1..Len(m.groups) :
                  /\ Contains(Lower(m.groups[i].description), Lower(term))
                  /\ remove_revoked_deprecated => Live(m.groups[i])}, 1)

\* faulty variant: the wildcard branch keeps revoked and deprecated groups
MatchTermKeepRevoked(m, term) ==
    IF term = Wildcard
    THEN get_groups(m, FALSE)
    ELSE get_objects_by_content(m, term, TRUE)

\* lines 185-196: the groups one term contributes
MatchTerm(m, term) ==
    IF term = Wildcard
    THEN get_groups(m, TRUE)
    ELSE get_objects_by_content(m, term, TRUE)

\* lines 184-196: groups.extend(...) for every term
RECURSIVE CollectMatches(_, _)
CollectMatches(m, terms) ==
    IF terms = <<>> THEN <<>>
    ELSE MatchTerm(m, Head(terms)) \o CollectMatches(m, Tail(terms))

\* faulty variant: a later occurrence replaces the earlier one
RECURSIVE DedupeKeepLast(_, _, _)
DedupeKeepLast(gs, seen_ids, deduped) ==
    IF gs = <<>> THEN deduped
    ELSE IF \E j \in 1..Len(Tail(gs)) : Tail(gs)[j].id = Head(gs).id
         THEN DedupeKeepLast(Tail(gs), seen_ids, deduped)
         ELSE DedupeKeepLast(Tail(gs), seen_ids \cup {Head(gs).id},
                             Append(deduped, Head(gs)))

\* lines 199-204: deduplicate by STIX id
RECURSIVE Dedupe(_, _, _)
Dedupe(gs, seen_ids, deduped) ==
    IF gs = <<>> THEN deduped
    ELSE IF Head(gs).id \notin seen_ids
         THEN Dedupe(Tail(gs), seen_ids \cup {Head(gs).id},
                     Append(deduped, Head(gs)))
         ELSE Dedupe(Tail(gs), seen_ids, deduped)

search_groups(m, terms) == Dedupe(CollectMatches(m, terms), {}, <<>>)

-----------------------------------------------------------------------------
(* filter_by_threshold                                                     *)

\* line 285: the comprehension's condition
Retained(entry, thr) == IsSubTechnique(entry.key[2]) \/ entry.val >= thr

\* faulty variant: the list is edited in place while it is iterated, so the entry
\* that slides into a removed entry's position is never examined
RECURSIVE RemoveWhileIterating(_, _, _)
RemoveWhileIterating(scores, thr, i) ==
    IF i > Len(scores) THEN scores
    ELSE IF Retained(scores[i], thr)
         THEN RemoveWhileIterating(scores, thr, i + 1)
         ELSE RemoveWhileIterating(
                 SelectIdx(scores, (1..Len(scores)) \ {i}, 1), thr, i + 1)

filter_by_threshold_inplace(scores, thr) ==
    IF thr = 0 THEN scores ELSE RemoveWhileIterating(scores, thr, 1)

\* faulty variant: sub-techniques are filtered like any other entry
filter_by_threshold_nodot(scores, thr) ==
    IF thr = 0 THEN scores
    ELSE SelectIdx(scores, {i \in 1..Len(scores) : scores[i].val >= thr}, 1)

\* lines 279-286
filter_by_threshold(scores, thr) ==
    IF thr = 0 THEN scores
    ELSE SelectIdx(scores, {i \in 1..Len(scores) : Retained(scores[i], thr)}, 1)

-----------------------------------------------------------------------------
(* build_layer                                                             *)

LAYER_VERSION == "4.5"
DOMAIN_NAME == "enterprise-attack"   \* DOMAIN (a reserved word here)
GRADIENT_COLORS == <<"#ff6666ff", "#ffe766ff", "#8ec843ff">>

\* max(technique_scores.values()) over a non-empty dict
RECURSIVE MaxValue(_)
MaxValue(scores) ==
    IF Len(scores) = 1 THEN scores[1].val
    ELSE Max(scores[1].val, MaxValue(Tail(scores)))

\* faulty variant: an empty ScoreMap gives 0
max_score_zero(scores) == IF scores # <<>> THEN MaxValue(scores) ELSE 0

\* line 319
max_score(scores) == IF scores # <<>> THEN MaxValue(scores) ELSE 1

\* lines 308-338
build_layer(name, scores, attack_version, navigator_version) ==
    [name |-> name,
     domain |-> DOMAIN_NAME,
     versions |-> [layer |-> LAYER_VERSION, attack |-> attack_version,
                   navigator |-> navigator_version],
     gradient |-> [colors |-> GRADIENT_COLORS, minValue |-> 1,
                   maxValue |-> max_score(scores)],
     techniques |-> [i \in 1..Len(scores) |->
                        [techniqueID |-> scores[i].key[2],
                         tactic |-> scores[i].key[1],
                         score |-> scores[i].val]]]

-----------------------------------------------------------------------------
(* relationships.py: get_related                                           *)

\* A STIX id "<type>--<uuid>" is the pair <<type, uuid>>.  `t in ref` is a
\* substring test on the whole id; no type tag used here is a substring of
\* another one or of a uuid, so it holds exactly when t is the id's type.
TypeInRef(t, ref) == t = ref[1]

\* lines 6-11: the edges of the requested type that are neither revoked
\* nor deprecated, in store order
QueryRelationships(src, rel_type) ==
    SelectIdx(src.relationships,
              {i \in 1..Len(src.relationships) :
                  /\ src.relationships[i].relationship_type = rel_type
                  /\ src.relationships[i].revoked = FALSE
                  /\ src.relationships[i].x_mitre_deprecated = FALSE}, 1)

\* lines 17-43: the dict stix_id => [ {relationship, id} ]
RECURSIVE BuildIdToRelated(_, _, _, _, _)
BuildIdToRelated(d, rels, src_type, target_type, reverse) ==
    IF rels = <<>> THEN d
    ELSE LET r == Head(rels)
             k == IF reverse THEN r.target_ref ELSE r.source_ref
             far == IF reverse THEN r.source_ref ELSE r.target_ref
             item == [relationship |-> r, id |-> far]
         IN  IF TypeInRef(src_type, r.source_ref) /\ TypeInRef(target_type, r.target_ref)
             THEN BuildIdToRelated(
                     IF DictHas(d, k)
                     THEN DictSet(d, k, Append(DictGet(d, k, <<>>), item))
                     ELSE DictSet(d, k, <<item>>),
                     Tail(rels), src_type, target_type, reverse)
             ELSE BuildIdToRelated(d, Tail(rels), src_type, target_type, reverse)

\* lines 45-54: all objects of the far side's type that are not revoked
QueryTargets(src, src_type, target_type, reverse) ==
    {o \in src.objects :
        /\ o.type = (IF reverse THEN src_type ELSE target_type)
        /\ o.revoked = FALSE}

\* lines 57-59: id_to_target, as the set of its keys and a lookup
TargetOf(targets, ref) == CHOOSE o \in targets : o.id = ref

\* lines 64-71: the related objects of one key, unresolvable ones skipped
RECURSIVE ResolveRelated(_, _)
ResolveRelated(relateds, targets) ==
    IF relateds = <<>> THEN <<>>
    ELSE IF ~(\E o \in targets : o.id = Head(relateds).id)
         THEN ResolveRelated(Tail(relateds), targets)
         ELSE <<[object |-> TargetOf(targets, Head(relateds).id),
                 relationship |-> Head(relateds).relationship]>>
              \o ResolveRelated(Tail(relateds), targets)

\* lines 5-73
get_related(src, src_type, rel_type, target_type, reverse) ==
    LET id_to_related ==
            BuildIdToRelated(<<>>, QueryRelationships(src, rel_type),
                             src_type, target_type, reverse)
        targets == QueryTargets(src, src_type, target_type, reverse)
    IN  [i \in 1..Len(id_to_related) |->
            [key |-> id_to_related[i].key,
             val |-> ResolveRelated(id_to_related[i].val, targets)]]

\* lines 91-93
techniques_used_by_groups(src) ==
    get_related(src, "intrusion-set", "uses", "attack-pattern", FALSE)

\* lines 96-98
groups_using_technique(src) ==
    get_related(src, "intrusion-set", "uses", "attack-pattern", TRUE)

-----------------------------------------------------------------------------
(* Temporary files                                                         *)

\* the component tempfile.mkdtemp(prefix="attack_stix_") creates
TempName == "attack_stix_k"

\* line 97: the directory mkdtemp returns
TempRoot == <<"tmp", TempName>>

\* a version directory the library's download may create below download_dir
\* (lines 111-114 search the tree for the file)
VersionDir == TempRoot \o <<"v">>

FileName == "enterprise-attack.json"

IsPrefix(p, q) == Len(p) <= Len(q) /\ \A i \in 1..Len(p) : p[i] = q[i]

\* os.path.dirname
dirname(path) == SubSeq(path, 1, Len(path) - 1)

\* 'attack_stix_' in temp_dir: only the mkdtemp component holds the prefix
HasStixPrefix(path) == \E i \in 1..Len(path) : path[i] = TempName

\* shutil.rmtree(path, ignore_errors=True)
rmtree(dirs, path) == {d \in dirs : ~IsPrefix(path, d)}

-----------------------------------------------------------------------------
(* Sample data of a whole run                                              *)

Group(gid, description, revoked, deprecated) ==
    [id |-> gid, description |-> description,
     revoked |-> revoked, deprecated |-> deprecated]

Entry(t) == [object |-> t]

\* group A uses T1055; group B uses T1055 and T1055.001 (all defense-evasion)
ExampleTechniques ==
    <<[key |-> "intrusion-set--A", val |-> <<Entry(t1055)>>],
      [key |-> "intrusion-set--B", val |-> <<Entry(t1055), Entry(t1055_001)>>]>>

ExampleDataset ==
    [groups |-> <<Group("intrusion-set--A", <<"a", "B">>, FALSE, FALSE),
                  Group("intrusion-set--B", <<"b">>, FALSE, FALSE),
                  Group("intrusion-set--C", <<"a">>, TRUE, FALSE)>>,
     group_techniques |-> ExampleTechniques]

OtherDataset ==
    [groups |-> <<Group("intrusion-set--B", <<"A">>, FALSE, FALSE),
                  Group("intrusion-set--A", <<"a", "b">>, FALSE, TRUE),
                  Group("intrusion-set--C", <<>>, FALSE, FALSE)>>,
     group_techniques |->
        <<[key |-> "intrusion-set--B",
           val |-> <<Entry(t1053_005), Entry(t_noid), Entry(t1055_001)>>],
          [key |-> "intrusion-set--A", val |-> <<Entry(t1055)>>]>>]

SampleDatasets == {ExampleDataset, OtherDataset}

SampleSearches == {<<Wildcard>>, <<<<"a">>>>, <<<<"b">>, <<"A">>>>, <<<<"b", "b">>>>}

EmptyDataset == [groups |-> <<>>, group_techniques |-> <<>>]

EmptyStore == [objects |-> {}, relationships |-> <<>>]

-----------------------------------------------------------------------------
(* main: one run of the program                                            *)

Init ==
    /\ pc = "download"
    /\ search_terms \in SampleSearches
    /\ merge_tech \in BOOLEAN
    /\ threshold \in 0..MaxThreshold
    /\ fs = {}
    /\ stix_file = NoPath
    /\ temp_dir = NoPath
    /\ mitre = EmptyDataset
    /\ groups = <<>>
    /\ technique_scores = <<>>
    /\ filtered_scores = <<>>
    /\ layer = None
    /\ thesrc = EmptyStore
    /\ related_fwd = <<>>
    /\ related_rev = <<>>
    /\ combined = NotCalled

relUnchanged == UNCHANGED <<thesrc, related_fwd, related_rev, combined>>
argsUnchanged == UNCHANGED <<search_terms, merge_tech, threshold>>
dataUnchanged == UNCHANGED <<mitre, groups, technique_scores, filtered_scores, layer>>

\* lines 384-385 with download_stix_data (85-121) and download_stix_direct
\* (124-147): the library download leaves the file in download_dir or in a
\* directory below it; when it fails the direct download writes the file
\* into download_dir; when that fails too SystemExit (or an exception the
\* handlers do not catch) leaves the try body before temp_dir is assigned.
DownloadStixData ==
    /\ pc = "download"
    /\ \E outcome \in {"library_flat", "library_nested", "direct", "failed"} :
          /\ fs' = (IF outcome = "library_nested"
                    THEN {TempRoot, VersionDir} ELSE {TempRoot})
          /\ IF outcome = "failed"
             THEN /\ pc' = "finally"
                  /\ UNCHANGED <<stix_file, temp_dir>>
             ELSE /\ stix_file' = (IF outcome = "library_nested"
                                   THEN VersionDir \o <<FileName>>
                                   ELSE TempRoot \o <<FileName>>)
                  /\ temp_dir' = dirname(stix_file')
                  /\ pc' = "versions"
    /\ argsUnchanged /\ dataUnchanged /\ relUnchanged

\* lines 389-390
DetectVersions ==
    /\ pc = "versions"
    /\ pc' = "load"
    /\ UNCHANGED <<fs, stix_file, temp_dir>>
    /\ argsUnchanged /\ dataUnchanged /\ relUnchanged

\* line 397
LoadData ==
    /\ pc = "load"
    /\ mitre' \in SampleDatasets
    /\ pc' = "search"
    /\ UNCHANGED <<fs, stix_file, temp_dir, groups, technique_scores,
                   filtered_scores, layer>>
    /\ argsUnchanged /\ relUnchanged

\* line 404
SearchGroups ==
    /\ pc = "search"
    /\ groups' = search_groups(mitre, search_terms)
    /\ pc' = "aggregate"
    /\ UNCHANGED <<fs, stix_file, temp_dir, mitre, technique_scores,
                   filtered_scores, layer>>
    /\ argsUnchanged /\ relUnchanged

\* line 412
AggregateTechniques ==
    /\ pc = "aggregate"
    /\ technique_scores' = aggregate_techniques(mitre, groups, merge_tech)
    /\ pc' = "threshold"
    /\ UNCHANGED <<fs, stix_file, temp_dir, mitre, groups, filtered_scores, layer>>
    /\ argsUnchanged /\ relUnchanged

\* lines 415-417
ApplyThreshold ==
    /\ pc = "threshold"
    /\ technique_scores' = (IF threshold > 0
                            THEN filter_by_threshold(technique_scores, threshold)
                            ELSE technique_scores)
    /\ pc' = "build"
    /\ UNCHANGED <<fs, stix_file, temp_dir, mitre, groups, filtered_scores, layer>>
    /\ argsUnchanged /\ relUnchanged

\* line 421
BuildLayer ==
    /\ pc = "build"
    /\ layer' = build_layer("title", technique_scores, "17.1", "5.0.0")
    /\ pc' = "write"
    /\ UNCHANGED <<fs, stix_file, temp_dir, mitre, groups, technique_scores,
                   filtered_scores>>
    /\ argsUnchanged /\ relUnchanged

\* lines 424-429
SaveLayer ==
    /\ pc = "write"
    /\ pc' = "finally"
    /\ UNCHANGED <<fs, stix_file, temp_dir>>
    /\ argsUnchanged /\ dataUnchanged /\ relUnchanged

\* an exception leaves the try body (lines 382-429) after the download
RaiseInTry ==
    /\ pc \in {"versions", "load", "search", "aggregate", "threshold", "build", "write"}
    /\ pc' = "finally"
    /\ UNCHANGED <<fs, stix_file, temp_dir>>
    /\ argsUnchanged /\ dataUnchanged /\ relUnchanged

\* lines 431-434
Cleanup ==
    /\ pc = "finally"
    /\ fs' = (IF temp_dir # NoPath /\ HasStixPrefix(temp_dir)
              THEN rmtree(fs, temp_dir) ELSE fs)
    /\ pc' = "exit"
    /\ UNCHANGED <<stix_file, temp_dir>>
    /\ argsUnchanged /\ dataUnchanged /\ relUnchanged

Next ==
    \/ DownloadStixData
    \/ DetectVersions
    \/ LoadData
    \/ SearchGroups
    \/ AggregateTechniques
    \/ ApplyThreshold
    \/ BuildLayer
    \/ SaveLayer
    \/ RaiseInTry
    \/ Cleanup

Spec == Init /\ [][Next]_vars

-----------------------------------------------------------------------------
(* aggregate_techniques applied to bounded inputs                          *)

\* the intrusion-set objects an aggregation run can be handed
AggGroups == {Group(g, <<>>, FALSE, FALSE) : g \in GroupIds}

\* resolved group lists: each group at most once, in any order
GroupLists ==
    {gs \in SeqsUpTo(AggGroups, Cardinality(GroupIds)) : NoDup(gs)}

\* a group holds one relationship entry per technique it uses
EntryLists(n) == {es \in [1..n -> {Entry(t) : t \in Techniques}] : NoDup(es)}

\* group -> techniques used, for groups A and B (C has no relationship),
\* with at most MaxUses entries in all; a group without entries has no key
GroupTechniqueChoices ==
    UNION {
        {(IF a = <<>> THEN <<>> ELSE <<[key |-> "intrusion-set--A", val |-> a]>>)
            \o (IF b = <<>> THEN <<>> ELSE <<[key |-> "intrusion-set--B", val |-> b]>>) :
                a \in EntryLists(n[1]), b \in EntryLists(n[2])} :
        n \in {m \in (0..MaxUses) \X (0..MaxUses) : m[1] + m[2] <= MaxUses}}

InitAggregate ==
    /\ pc = "aggregate"
    /\ search_terms = <<>>
    /\ merge_tech \in BOOLEAN
    /\ threshold = 0
    /\ fs = {}
    /\ stix_file = NoPath
    /\ temp_dir = NoPath
    /\ \E gt \in GroupTechniqueChoices :
          mitre = [groups |-> <<>>, group_techniques |-> gt]
    /\ groups \in GroupLists
    /\ technique_scores = <<>>
    /\ filtered_scores = <<>>
    /\ layer = None
    /\ thesrc = EmptyStore
    /\ related_fwd = <<>>
    /\ related_rev = <<>>
    /\ combined = NotCalled

SpecAggregate == InitAggregate /\ [][AggregateTechniques]_vars

-----------------------------------------------------------------------------
(* search_groups applied to bounded inputs                                 *)

Descriptions == {<<>>, <<"A", "b">>, <<"b">>}

SearchTerms == {Wildcard, <<>>, <<"a">>, <<"B">>, <<"a", "B">>}

\* three groups in store order, each live, revoked or deprecated
GroupStores ==
    {[i \in 1..3 |->
        Group(<<"intrusion-set--A", "intrusion-set--B", "intrusion-set--C">>[i],
              d[i], st[i] = "revoked", st[i] = "deprecated")] :
        d \in [1..3 -> Descriptions],
        st \in [1..3 -> {"live", "revoked", "deprecated"}]}

InitSearch ==
    /\ pc = "search"
    /\ search_terms \in (SeqsUpTo(SearchTerms, MaxTerms) \ {<<>>})
    /\ merge_tech = TRUE
    /\ threshold = 0
    /\ fs = {}
    /\ stix_file = NoPath
    /\ temp_dir = NoPath
    /\ \E gl \in GroupStores :
          mitre = [groups |-> gl, group_techniques |-> <<>>]
    /\ groups = <<>>
    /\ technique_scores = <<>>
    /\ filtered_scores = <<>>
    /\ layer = None
    /\ thesrc = EmptyStore
    /\ related_fwd = <<>>
    /\ related_rev = <<>>
    /\ combined = NotCalled

SpecSearch == InitSearch /\ [][SearchGroups]_vars

-----------------------------------------------------------------------------
(* filter_by_threshold and build_layer applied to bounded inputs           *)

FilterKeys ==
    {<<"defense-evasion", <<"T1055">>>>, <<"defense-evasion", <<"T1055", "001">>>>,
     <<"execution", <<"T1053">>>>, <<"execution", <<"T1053", "005">>>>}

\* ScoreMaps: distinct keys in any insertion order, positive scores
ScoreMaps ==
    {d \in SeqsUpTo([key : FilterKeys, val : 1..MaxScore], MaxEntries) :
        \A i, j \in 1..Len(d) : d[i].key = d[j].key => i = j}

InitLayer ==
    /\ pc = "filter"
    /\ search_terms = <<>>
    /\ merge_tech = TRUE
    /\ threshold \in 0..MaxThreshold
    /\ fs = {}
    /\ stix_file = NoPath
    /\ temp_dir = NoPath
    /\ mitre = EmptyDataset
    /\ groups = <<>>
    /\ technique_scores \in ScoreMaps
    /\ filtered_scores = <<>>
    /\ layer = None
    /\ thesrc = EmptyStore
    /\ related_fwd = <<>>
    /\ related_rev = <<>>
    /\ combined = NotCalled

\* filter_by_threshold(technique_scores, threshold)
CallFilter ==
    /\ pc = "filter"
    /\ filtered_scores' = filter_by_threshold(technique_scores, threshold)
    /\ pc' = "refilter"
    /\ UNCHANGED <<fs, stix_file, temp_dir, mitre, groups, technique_scores, layer>>
    /\ argsUnchanged /\ relUnchanged

\* the filter applied to its own result, with the same threshold
CallFilterAgain ==
    /\ pc = "refilter"
    /\ filtered_scores' = filter_by_threshold(filtered_scores, threshold)
    /\ pc' = "layer"
    /\ UNCHANGED <<fs, stix_file, temp_dir, mitre, groups, technique_scores, layer>>
    /\ argsUnchanged /\ relUnchanged

\* build_layer on the filtered ScoreMap
CallBuildLayer ==
    /\ pc = "layer"
    /\ layer' = build_layer("title", filtered_scores, "17.1", "5.0.0")
    /\ pc' = "built"
    /\ UNCHANGED <<fs, stix_file, temp_dir, mitre, groups, technique_scores,
                   filtered_scores>>
    /\ argsUnchanged /\ relUnchanged

NextLayer == CallFilter \/ CallFilterAgain \/ CallBuildLayer

SpecLayer == InitLayer /\ [][NextLayer]_vars

-----------------------------------------------------------------------------
(* get_related applied to bounded stores                                   *)

G1 == <<"intrusion-set", "1">>
G2 == <<"intrusion-set", "2">>
T1 == <<"attack-pattern", "1">>
T2 == <<"attack-pattern", "2">>

Object(ref, status) ==
    [id |-> ref, type |-> ref[1],
     revoked |-> status = "revoked", x_mitre_deprecated |-> status = "deprecated"]

\* the store's objects: G2 and T2 are live, G1 and T1 may be superseded
ObjectSets ==
    {{Object(G1, s1), Object(G2, "live"), Object(T1, s2), Object(T2, "live")} :
        s1 \in {"live", "revoked"}, s2 \in {"live", "revoked", "deprecated"}}

\* edges a store may hold: group-uses-technique edges in every status, and
\* live edges of another relationship type or between other object types
EdgeKinds ==
    {[source_ref |-> g, target_ref |-> t, relationship_type |-> "uses", status |-> st] :
        g \in {G1, G2}, t \in {T1, T2}, st \in {"live", "revoked", "deprecated"}}
    \cup {[source_ref |-> G1, target_ref |-> T1, relationship_type |-> "mitigates",
           status |-> "live"],
          [source_ref |-> T1, target_ref |-> T2, relationship_type |-> "uses",
           status |-> "live"],
          [source_ref |-> G1, target_ref |-> G2, relationship_type |-> "uses",
           status |-> "live"]}

\* relationship records in store order; the position is the record's id
Relationships(kinds) ==
    [i \in 1..Len(kinds) |->
        [id |-> i,
         source_ref |-> kinds[i].source_ref,
         target_ref |-> kinds[i].target_ref,
         relationship_type |-> kinds[i].relationship_type,
         revoked |-> kinds[i].status = "revoked",
         x_mitre_deprecated |-> kinds[i].status = "deprecated"]]

InitRelated ==
    /\ pc = "related"
    /\ search_terms = <<>>
    /\ merge_tech = TRUE
    /\ threshold = 0
    /\ fs = {}
    /\ stix_file = NoPath
    /\ temp_dir = NoPath
    /\ mitre = EmptyDataset
    /\ groups = <<>>
    /\ technique_scores = <<>>
    /\ filtered_scores = <<>>
    /\ layer = None
    /\ \E os \in ObjectSets, kinds \in SeqsUpTo(EdgeKinds, MaxEdges) :
          thesrc = [objects |-> os, relationships |-> Relationships(kinds)]
    /\ related_fwd = <<>>
    /\ related_rev = <<>>
    /\ combined = NotCalled

mainUnchanged ==
    UNCHANGED <<search_terms, merge_tech, threshold, fs, stix_file, temp_dir,
                mitre, groups, technique_scores, filtered_scores, layer>>

\* techniques_used_by_groups(thesrc)
TechniquesUsedByGroups ==
    /\ pc \in {"related", "reverse_done"}
    /\ related_fwd' = techniques_used_by_groups(thesrc)
    /\ pc' = (IF pc = "related" THEN "forward_done" ELSE "both_done")
    /\ UNCHANGED <<thesrc, related_rev, combined>>
    /\ mainUnchanged

\* groups_using_technique(thesrc)
GroupsUsingTechnique ==
    /\ pc \in {"related", "forward_done"}
    /\ related_rev' = groups_using_technique(thesrc)
    /\ pc' = (IF pc = "related" THEN "reverse_done" ELSE "both_done")
    /\ UNCHANGED <<thesrc, related_fwd, combined>>
    /\ mainUnchanged

NextRelated == TechniquesUsedByGroups \/ GroupsUsingTechnique

SpecRelated == InitRelated /\ [][NextRelated]_vars

-----------------------------------------------------------------------------
(* Properties of aggregate_techniques                                      *)

Aggregated == pc = "threshold"

\* the relationship entries of a listed group (none without a key)
UsedBy(g) ==
    IF \E k \in 1..Len(mitre.group_techniques) : mitre.group_techniques[k].key = g.id
    THEN (CHOOSE e \in Range(mitre.group_techniques) : e.key = g.id).val
    ELSE <<>>

\* one occurrence per listed group, relationship entry and tactic phase of
\* a technique whose identifier resolves
Occurrences ==
    UNION {LET es == UsedBy(groups[gi])
           IN  UNION {{[group |-> groups[gi].id, entry |-> ei, phase |-> pi,
                        tactic |-> es[ei].object.kill_chain_phases[pi],
                        id |-> es[ei].object.attack_id] :
                          pi \in 1..Len(es[ei].object.kill_chain_phases)} :
                      ei \in {e \in 1..Len(es) : es[e].object.attack_id # <<>>}} :
           gi \in 1..Len(groups)}

\* occurrences of the technique itself under the tactic
Direct(occ, key) == {o \in occ : o.tactic = key[1] /\ o.id = key[2]}

\* occurrences of its sub-techniques under the tactic
OfSubTechniques(occ, key) ==
    {o \in occ : o.tactic = key[1] /\ Len(o.id) > 1 /\ <<o.id[1]>> = key[2]}

\* the listed groups that use the technique under the tactic
GroupsUsing(occ, key) == {o.group : o \in Direct(occ, key)}

Counted(occ, key) ==
    Cardinality(Direct(occ, key))
        + (IF merge_tech THEN Cardinality(OfSubTechniques(occ, key)) ELSE 0)

Score(key) ==
    IF \E i \in 1..Len(technique_scores) : technique_scores[i].key = key
    THEN (CHOOSE e \in Range(technique_scores) : e.key = key).val
    ELSE 0

AllKeys == ScoreKeys \cup DictKeys(technique_scores)

UniqueKeys ==
    \A i, j \in 1..Len(technique_scores) :
        technique_scores[i].key = technique_scores[j].key => i = j

\* C1 as stated: one entry per (tactic, technique) and the score of every
\* entry is the number of distinct listed groups that use the technique
\* under the tactic, whatever the order of the groups.
C1_ScoreIsDistinctGroups ==
    Aggregated =>
        LET occ == Occurrences
        IN  /\ UniqueKeys
            /\ \A key \in AllKeys :
                  Score(key) = Cardinality(GroupsUsing(occ, key))

\* C1 amended: one entry per (tactic, technique) that has a counted
\* occurrence, and its score is the number of counted occurrences among the
\* listed groups (one per relationship entry and phase of the technique
\* itself, plus with merge_tech one per entry and phase of its
\* sub-techniques), whatever the order of the groups; that number is the
\* number of distinct groups using the technique under the tactic when no
\* sub-technique is merged in and no group lists the technique twice.
C1_ScoreIsCountedOccurrences ==
    Aggregated =>
        LET occ == Occurrences
        IN  /\ UniqueKeys
            /\ \A key \in AllKeys :
                  /\ Score(key) = Counted(occ, key)
                  /\ (key \in DictKeys(technique_scores)) <=> (Counted(occ, key) > 0)
                  /\ (/\ Counted(occ, key) = Cardinality(Direct(occ, key))
                      /\ Cardinality(Direct(occ, key))
                            = Cardinality(GroupsUsing(occ, key)))
                     => Score(key) = Cardinality(GroupsUsing(occ, key))

\* two listed groups each use a technique under a tactic: one entry, score 2
C1_Witness ==
    /\ Aggregated
    /\ \E key \in DictKeys(technique_scores) :
          /\ Cardinality(GroupsUsing(Occurrences, key)) = 2
          /\ Score(key) = 2
          /\ Cardinality({i \in 1..Len(technique_scores) :
                             technique_scores[i].key = key}) = 1

\* the dataset of the end-to-end example, groups A and B resolved
ExampleRun ==
    /\ mitre.group_techniques = ExampleTechniques
    /\ Len(groups) = 2
    /\ {groups[1].id, groups[2].id} = {"intrusion-set--A", "intrusion-set--B"}

\* C2: a sub-technique occurrence under a tactic adds 1 to its own key and,
\* with merge_tech, 1 to the parent's key under the same tactic (nothing to
\* the parent without merge_tech); so with merge_tech a parent's score is
\* its own occurrences plus those of its sub-techniques, and the example
\* dataset gives exactly {(defense-evasion, T1055): 3,
\* (defense-evasion, T1055.001): 1}.
C2_SubTechniqueMerge ==
    Aggregated =>
        LET occ == Occurrences
        IN  /\ \A key \in AllKeys :
                  IF Len(key[2]) > 1
                  THEN Score(key) = Cardinality(Direct(occ, key))
                  ELSE Score(key) =
                          IF merge_tech
                          THEN Cardinality(Direct(occ, key))
                                  + Cardinality(OfSubTechniques(occ, key))
                          ELSE Cardinality(Direct(occ, key))
            /\ (ExampleRun /\ merge_tech) =>
                  /\ Len(technique_scores) = 2
                  /\ Range(technique_scores) =
                        {[key |-> <<"defense-evasion", <<"T1055">>>>, val |-> 3],
                         [key |-> <<"defense-evasion", <<"T1055", "001">>>>, val |-> 1]}

\* the example run with merge_tech: the parent holds 3
C2_Witness ==
    /\ Aggregated
    /\ ExampleRun
    /\ merge_tech
    /\ Score(<<"defense-evasion", <<"T1055">>>>) = 3
    /\ Score(<<"defense-evasion", <<"T1055", "001">>>>) = 1

-----------------------------------------------------------------------------
(* Properties of filter_by_threshold and build_layer                       *)

Dotted(entry) == Len(entry.key[2]) > 1

\* position of an entry of the input ScoreMap
PosIn(d, entry) == CHOOSE i \in 1..Len(d) : d[i] = entry

\* C3: the filter returns exactly the input entries that hold a dotted
\* identifier or a score of at least the threshold, unchanged and in the
\* input's order; a dotted entry is never removed; threshold 0 returns the
\* input.
C3_FilterKeepsExactly ==
    pc = "refilter" =>
        /\ Range(filtered_scores) =
              {e \in Range(technique_scores) : Dotted(e) \/ e.val >= threshold}
        /\ Cardinality(Range(filtered_scores)) = Len(filtered_scores)
        /\ \A i, j \in 1..Len(filtered_scores) :
              i < j => PosIn(technique_scores, filtered_scores[i])
                          < PosIn(technique_scores, filtered_scores[j])
        /\ \A e \in Range(technique_scores) : Dotted(e) => e \in Range(filtered_scores)
        /\ threshold = 0 => filtered_scores = technique_scores

\* a dotted entry below the threshold is kept while a plain one is removed
C3_Witness ==
    /\ pc = "refilter"
    /\ threshold > 0
    /\ \E e \in Range(technique_scores) :
          Dotted(e) /\ e.val < threshold /\ e \in Range(filtered_scores)
    /\ \E e \in Range(technique_scores) :
          ~Dotted(e) /\ e.val < threshold /\ e \notin Range(filtered_scores)

\* C4: the filter applied twice with the same threshold gives what one
\* application gives.
C4_FilterIdempotent ==
    pc = "layer" =>
        filtered_scores = filter_by_threshold(technique_scores, threshold)

\* the filter ran twice and its first application removed entries
C4_Witness ==
    /\ pc = "layer"
    /\ threshold > 0
    /\ filtered_scores # <<>>
    /\ Len(filtered_scores) + 2 <= Len(technique_scores)

\* C7: the gradient's minValue is 1 and its maxValue is the largest score of
\* the ScoreMap handed to build_layer, or 1 when that ScoreMap is empty.
C7_GradientBounds ==
    pc = "built" =>
        /\ layer.gradient.minValue = 1
        /\ IF filtered_scores = <<>>
           THEN layer.gradient.maxValue = 1
           ELSE /\ \E e \in Range(filtered_scores) : e.val = layer.gradient.maxValue
                /\ \A e \in Range(filtered_scores) : e.val <= layer.gradient.maxValue

\* a layer built from an empty ScoreMap (every entry was filtered out)
C7_Witness ==
    /\ pc = "built"
    /\ technique_scores # <<>>
    /\ filtered_scores = <<>>
    /\ layer.gradient.maxValue = 1
    /\ layer.techniques = <<>>

-----------------------------------------------------------------------------
(* Properties of search_groups                                             *)

Searched == pc = "aggregate"

\* a stored group qualifies for a term
Matches(g, term) ==
    /\ ~g.revoked
    /\ ~g.deprecated
    /\ \/ term = Wildcard
       \/ \E k \in 0..(Len(g.description) - Len(term)) :
             \A i \in 1..Len(term) :
                LowerChar(g.description[k + i]) = LowerChar(term[i])

MatchedTerms(g) == {n \in 1..Len(search_terms) : Matches(g, search_terms[n])}

FirstTerm(g) == CHOOSE n \in MatchedTerms(g) : \A k \in MatchedTerms(g) : n <= k

StorePos(g) == CHOOSE i \in 1..Len(mitre.groups) : mitre.groups[i].id = g.id

\* C5: the resolved list holds every group that matches a term exactly
\* once, ordered by first match (the first matching term, then the order in
\* which that term's matches are returned).
C5_DedupFirstMatch ==
    Searched =>
        /\ \A i, j \in 1..Len(groups) : groups[i].id = groups[j].id => i = j
        /\ Range(groups) = {g \in Range(mitre.groups) : MatchedTerms(g) # {}}
        /\ \A i, j \in 1..Len(groups) :
              i < j =>
                 \/ FirstTerm(groups[i]) < FirstTerm(groups[j])
                 \/ /\ FirstTerm(groups[i]) = FirstTerm(groups[j])
                    /\ StorePos(groups[i]) < StorePos(groups[j])

\* a group matched by two terms is listed once, ahead of a group that the
\* store holds before it
C5_Witness ==
    /\ Searched
    /\ \E i, j \in 1..Len(groups) :
          /\ i < j
          /\ Cardinality(MatchedTerms(groups[i])) = 2
          /\ StorePos(groups[j]) < StorePos(groups[i])

\* every keyword a term can be, up to the bound
KeywordTerms == SeqsUpTo(Alphabet, MaxTermLen)

IdsOf(gs) == {gs[i].id : i \in 1..Len(gs)}

\* C6: the wildcard term alone resolves the same set of groups as all the
\* keyword terms together, and none of them is revoked or deprecated.
C6_WildcardIsUnion ==
    (Searched /\ search_terms = <<Wildcard>>) =>
        /\ IdsOf(groups) =
              UNION {IdsOf(search_groups(mitre, <<t>>)) : t \in KeywordTerms}
        /\ \A i \in 1..Len(groups) : ~groups[i].revoked /\ ~groups[i].deprecated

\* a wildcard search over a store holding live, revoked and deprecated groups
C6_Witness ==
    /\ Searched
    /\ search_terms = <<Wildcard>>
    /\ groups # <<>>
    /\ \E g \in Range(mitre.groups) : g.revoked
    /\ \E g \in Range(mitre.groups) : g.deprecated
    /\ \E g \in Range(groups) : g.description = <<>>

-----------------------------------------------------------------------------
(* Properties of get_related                                               *)

StoredObject(ref) == CHOOSE o \in thesrc.objects : o.id = ref

Superseded(o) == o.revoked \/ o.x_mitre_deprecated

\* the objects of a type that are neither revoked nor deprecated
FilteredEntities(type) == {o \in thesrc.objects : o.type = type /\ ~Superseded(o)}

NoSuperseded(out, far_type) ==
    \A i \in 1..Len(out) :
        /\ ~Superseded(StoredObject(out[i].key))
        /\ \A j \in 1..Len(out[i].val) :
              /\ ~Superseded(out[i].val[j].relationship)
              /\ out[i].val[j].object \in FilteredEntities(far_type)

\* C8: the mapping holds no revoked or deprecated edge and no revoked or
\* deprecated entity, as a key or as a related object, and every listed
\* object belongs to the filtered entity set of the far side's type (other
\* edges are dropped).
C8_NoRevokedOrDeprecated ==
    /\ pc \in {"forward_done", "both_done"} => NoSuperseded(related_fwd, "attack-pattern")
    /\ pc \in {"reverse_done", "both_done"} => NoSuperseded(related_rev, "intrusion-set")

Listed(out, k, ref, r) ==
    \E i \in 1..Len(out) :
        /\ out[i].key = k
        /\ \E j \in 1..Len(out[i].val) :
              out[i].val[j].object.id = ref /\ out[i].val[j].relationship = r

\* C10: the reverse mapping is the transpose of the forward mapping: t is
\* listed under s forward exactly when s is listed under t in reverse, with
\* the same relationship record.
C10_ReverseIsTranspose ==
    pc = "both_done" =>
        \A s \in {G1, G2, T1, T2}, t \in {G1, G2, T1, T2},
           r \in Range(thesrc.relationships) :
              Listed(related_fwd, s, t, r) <=> Listed(related_rev, t, s, r)

-----------------------------------------------------------------------------
(* Properties of a run of main                                             *)

\* C9: when the process exits, the directory download_stix_data created
\* is gone.
C9_TempDirRemoved == pc = "exit" => TempRoot \notin fs

-----------------------------------------------------------------------------
(* relationships.py: the lookups that combine two get_related results      *)

\* lines 79, 85, 104, 110: `a + b` on two dicts.  dict defines no __add__,
\* so the expression raises TypeError whatever the operands hold and the
\* function returns nothing.
DictPlus(a, b) == Outcome("TypeError", <<>>)

\* lines 77-80
software_used_by_groups(src) ==
    DictPlus(get_related(src, "intrusion-set", "uses", "tool", FALSE),
             get_related(src, "intrusion-set", "uses", "malware", FALSE))

\* lines 83-87
groups_using_software(src) ==
    DictPlus(get_related(src, "intrusion-set", "uses", "tool", TRUE),
             get_related(src, "intrusion-set", "uses", "malware", TRUE))

\* lines 102-105
techniques_used_by_software(src) ==
    DictPlus(get_related(src, "malware", "uses", "attack-pattern", FALSE),
             get_related(src, "tool", "uses", "attack-pattern", FALSE))

\* lines 108-112
software_using_technique(src) ==
    DictPlus(get_related(src, "malware", "uses", "attack-pattern", TRUE),
             get_related(src, "tool", "uses", "attack-pattern", TRUE))

S1 == <<"tool", "1">>
M1 == <<"malware", "1">>

\* a store with a group, a tool, a malware and a technique, all live or with
\* the tool revoked
SoftwareObjectSets ==
    {{Object(G1, "live"), Object(G2, "live"), Object(S1, st), Object(M1, "live"),
      Object(T1, "live")} : st \in {"live", "revoked"}}

\* live 'uses' edges from groups to software and from software to techniques
SoftwareEdgeKinds ==
    {[source_ref |-> a, target_ref |-> b, relationship_type |-> "uses",
      status |-> "live"] :
        a \in {G1, G2}, b \in {S1, M1}}
    \cup {[source_ref |-> a, target_ref |-> T1, relationship_type |-> "uses",
           status |-> "live"] : a \in {S1, M1}}

InitSoftware ==
    /\ pc = "software"
    /\ search_terms = <<>>
    /\ merge_tech = TRUE
    /\ threshold = 0
    /\ fs = {}
    /\ stix_file = NoPath
    /\ temp_dir = NoPath
    /\ mitre = EmptyDataset
    /\ groups = <<>>
    /\ technique_scores = <<>>
    /\ filtered_scores = <<>>
    /\ layer = None
    /\ \E os \in SoftwareObjectSets, kinds \in SeqsUpTo(SoftwareEdgeKinds, MaxEdges) :
          thesrc = [objects |-> os, relationships |-> Relationships(kinds)]
    /\ related_fwd = <<>>
    /\ related_rev = <<>>
    /\ combined = NotCalled

SoftwareUsedByGroups ==
    /\ pc = "software"
    /\ combined' = software_used_by_groups(thesrc)
    /\ pc' = "software_used_by_groups"
    /\ UNCHANGED <<thesrc, related_fwd, related_rev>>
    /\ mainUnchanged

GroupsUsingSoftware ==
    /\ pc = "software"
    /\ combined' = groups_using_software(thesrc)
    /\ pc' = "groups_using_software"
    /\ UNCHANGED <<thesrc, related_fwd, related_rev>>
    /\ mainUnchanged

TechniquesUsedBySoftware ==
    /\ pc = "software"
    /\ combined' = techniques_used_by_software(thesrc)
    /\ pc' = "techniques_used_by_software"
    /\ UNCHANGED <<thesrc, related_fwd, related_rev>>
    /\ mainUnchanged

SoftwareUsingTechnique ==
    /\ pc = "software"
    /\ combined' = software_using_technique(thesrc)
    /\ pc' = "software_using_technique"
    /\ UNCHANGED <<thesrc, related_fwd, related_rev>>
    /\ mainUnchanged

NextSoftware ==
    \/ SoftwareUsedByGroups
    \/ GroupsUsingSoftware
    \/ TechniquesUsedBySoftware
    \/ SoftwareUsingTechnique

SpecSoftware == InitSoftware /\ [][NextSoftware]_vars

-----------------------------------------------------------------------------
(* Properties of the combined lookups                                      *)

\* the two mappings a combined lookup merges, by the function called
FirstMapping ==
    CASE pc = "software_used_by_groups" ->
            get_related(thesrc, "intrusion-set", "uses", "tool", FALSE)
      [] pc = "groups_using_software" ->
            get_related(thesrc, "intrusion-set", "uses", "tool", TRUE)
      [] pc = "techniques_used_by_software" ->
            get_related(thesrc, "malware", "uses", "attack-pattern", FALSE)
      [] pc = "software_using_technique" ->
            get_related(thesrc, "malware", "uses", "attack-pattern", TRUE)

SecondMapping ==
    CASE pc = "software_used_by_groups" ->
            get_related(thesrc, "intrusion-set", "uses", "malware", FALSE)
      [] pc = "groups_using_software" ->
            get_related(thesrc, "intrusion-set", "uses", "malware", TRUE)
      [] pc = "techniques_used_by_software" ->
            get_related(thesrc, "tool", "uses", "attack-pattern", FALSE)
      [] pc = "software_using_technique" ->
            get_related(thesrc, "tool", "uses", "attack-pattern", TRUE)

\* the related entries a mapping lists under a key
EntriesUnder(d, k) ==
    UNION {Range(d[i].val) : i \in {j \in 1..Len(d) : d[j].key = k}}

\* C11: a combined lookup returns a mapping keyed by source identifier that
\* is the union of the two get_related mappings: its keys are the keys of
\* either, and under each key it lists every entry of both.
C11_CombinedIsUnion ==
    pc \in {"software_used_by_groups", "groups_using_software",
            "techniques_used_by_software", "software_using_technique"} =>
        /\ combined.raised = "None"
        /\ DictKeys(combined.value) = DictKeys(FirstMapping) \cup DictKeys(SecondMapping)
        /\ \A k \in DictKeys(combined.value) :
              EntriesUnder(combined.value, k) =
                 EntriesUnder(FirstMapping, k) \cup EntriesUnder(SecondMapping, k)

=============================================================================
